---- MODULE Spec2Model ----
(***************************************************************************)
(* Model of BaseScraper (src/scrapers/base_scraper.py): the browser        *)
(* lifecycle of run(): init_browser, optional authenticate, per-URL        *)
(* extract_data, and close_browser in the finally block.                   *)
(*                                                                         *)
(* A step of the model is the resumption of one await of the code,        *)
(* together with the straight-line code that follows it up to the next    *)
(* await.  pc[t] names the call a coroutine is suspended on.               *)
(* The collaborators (playwright, the subclass's authenticate and          *)
(* extract_data) are the environment: every await may return or raise.    *)
(***************************************************************************)
EXTENDS Integers, Sequences, FiniteSets, TLC

\* ---------------------------------------------------------------- bounds
NumTasks == 2        \* coroutine slots in which a call of run() executes
NumControllers == 2  \* BaseScraper instances
MaxRuns == 2         \* calls made on the controllers in one behaviour
MaxUrls == 2         \* length of the urls argument

Tasks == 1..NumTasks
Controllers == 1..NumControllers
Handles == 1..MaxRuns
Urls == {"https://site/a", "https://site/b"}

RECURSIVE SeqsUpTo(_, _)
SeqsUpTo(S, n) ==
    IF n = 0 THEN {<<>>}
    ELSE LET prev == SeqsUpTo(S, n - 1)
         IN  prev \cup {Append(s, x) : s \in {q \in prev : Len(q) = n - 1}, x \in S}

\* ------------------------------------------------------- python values
\* Optional[...] arguments: isNone marks Python's None.
NoneArg == [isNone |-> TRUE, val |-> <<>>]
Some(v) == [isNone |-> FALSE, val |-> v]

\* credentials: Optional[Dict[str, str]]; a dict is modelled by the sequence
\* of its (key, value) items, {} by the empty sequence.
EmptyDict == <<>>
UserPass == << <<"user", "x">>, <<"pass", "y">> >>
CredentialsArgs == {NoneArg, Some(EmptyDict), Some(UserPass)}

\* urls: List[str] = None
UrlsArgs == {NoneArg} \cup {Some(s) : s \in SeqsUpTo(Urls, MaxUrls)}

\* what one extract_data call may return: lists of records {"id": n}
ExtractResults == {<<>>, <<1>>, <<2, 3>>}

\* bool(x) of an Optional dict or list: None, {} and [] are falsy.
PyTruthy(x) == ~x.isNone /\ Len(x.val) > 0

\* Mutant of Extend: the new records are put in front of the accumulator.
Extend_Prepend(all_data, data) == data \o all_data

\* list.extend
Extend(all_data, data) == all_data \o data

\* exceptions: the kind of failure and, for extract_data, the URL index.
NoExc == [kind |-> "None", at |-> 0]
Exc(k, i) == [kind |-> k, at |-> i]

None == 0   \* self.browser / self.page hold None or a handle

VARIABLES
    browser,      \* self.browser of each controller
    page,         \* self.page of each controller
    pc,           \* the await each coroutine is suspended on
    self,         \* the controller a coroutine's run() was called on
    rid,          \* the number of the run a coroutine executes
    credentials,  \* run's argument
    urls,         \* run's argument
    idx,          \* position of the for loop over urls
    all_data,     \* run's local accumulator
    exc,          \* the exception in flight (NoExc: none)
    ret,          \* the value of the return statement executed
    target,       \* the handle whose close() is awaited
    authLog,      \* history: authenticate calls, argument and outcome
    extractLog,   \* history: extract_data calls, URL and outcome
    events,       \* history: collaborator calls in order
    nruns,        \* calls started so far
    launched,     \* browsers launched (by run number)
    pages,        \* pages created (by run number)
    browserCloses,\* browser.close() calls per browser
    pageCloses,   \* page.close() calls per page
    nav,          \* "none", the strategy method whose navigate_to call is
                  \* executing, or "navigated" once it has returned to it
    drivers,      \* playwright drivers started and not stopped (by run number)
    closed        \* pages and browsers whose close() has returned

frame == <<pc, self, rid, credentials, urls, idx, all_data, exc, ret, target,
           authLog, extractLog, events, nav>>
world == <<browser, page, nruns, launched, pages, browserCloses, pageCloses,
           drivers, closed>>
vars == <<frame, world>>

\* A collaborator call of a run: the operation, the handle it is made on (None
\* when it has none; self.page for the strategy's authenticate and
\* extract_data, which work on it) and the exception it raised (NoExc when it
\* returned).
Ev(op, h, e) == [op |-> op, h |-> h, exc |-> e]
Raise(ok, e) == IF ok THEN NoExc ELSE e

Init ==
    /\ browser = [c \in Controllers |-> None]
    /\ page = [c \in Controllers |-> None]
    /\ pc = [t \in Tasks |-> "idle"]
    /\ self = [t \in Tasks |-> 1]
    /\ rid = [t \in Tasks |-> 0]
    /\ credentials = [t \in Tasks |-> NoneArg]
    /\ urls = [t \in Tasks |-> NoneArg]
    /\ idx = [t \in Tasks |-> 0]
    /\ all_data = [t \in Tasks |-> <<>>]
    /\ exc = [t \in Tasks |-> NoExc]
    /\ ret = [t \in Tasks |-> <<>>]
    /\ target = [t \in Tasks |-> None]
    /\ authLog = [t \in Tasks |-> <<>>]
    /\ extractLog = [t \in Tasks |-> <<>>]
    /\ events = [t \in Tasks |-> <<>>]
    /\ nruns = 0
    /\ launched = {}
    /\ pages = {}
    /\ browserCloses = [h \in Handles |-> 0]
    /\ pageCloses = [h \in Handles |-> 0]
    /\ nav = [t \in Tasks |-> "none"]
    /\ drivers = {}
    /\ closed = {}


\* ------------------------------------------------------------ close_browser
\* Mutant of close_browser: it waits for the browser's "disconnected" event
\* without closing anything, so the event never comes.
close_browser_WaitsForDisconnect(t, c, e, r, evs) ==
    /\ exc' = [exc EXCEPT ![t] = e]
    /\ ret' = [ret EXCEPT ![t] = r]
    /\ events' = [events EXCEPT ![t] = Append(evs, Ev("close_browser", None, NoExc))]
    /\ pc' = [pc EXCEPT ![t] = "wait_for_event"]
    /\ UNCHANGED target

\* Mutant of close_browser: page and browser kept in class attributes shared
\* by the instances (here: those of controller 1) instead of in self.
close_browser_SharedFields(t, c, e, r, evs) ==
    LET evs2 == Append(evs, Ev("close_browser", None, NoExc))
    IN  /\ exc' = [exc EXCEPT ![t] = e]
        /\ ret' = [ret EXCEPT ![t] = r]
        /\ events' = [events EXCEPT ![t] = evs2]
        /\ IF page'[1] # None
           THEN /\ pc' = [pc EXCEPT ![t] = "page.close"]
                /\ target' = [target EXCEPT ![t] = page'[1]]
           ELSE IF browser'[1] # None
           THEN /\ pc' = [pc EXCEPT ![t] = "browser.close"]
                /\ target' = [target EXCEPT ![t] = browser'[1]]
           ELSE /\ pc' = [pc EXCEPT ![t] = "done"]
                /\ target' = [target EXCEPT ![t] = None]

\* close_browser on controller c runs up to its first await (lines 55-58):
\* page.close() if self.page is set, else browser.close() if self.browser is
\* set, else it returns and its caller delivers e (raise) or r (return).
\* Reads the controller's fields as the step leaves them.
close_browser(t, c, e, r, evs) ==
    LET evs2 == Append(evs, Ev("close_browser", None, NoExc))
    IN  /\ exc' = [exc EXCEPT ![t] = e]
        /\ ret' = [ret EXCEPT ![t] = r]
        /\ events' = [events EXCEPT ![t] = evs2]
        /\ IF page'[c] # None
           THEN /\ pc' = [pc EXCEPT ![t] = "page.close"]
                /\ target' = [target EXCEPT ![t] = page'[c]]
           ELSE IF browser'[c] # None
           THEN /\ pc' = [pc EXCEPT ![t] = "browser.close"]
                /\ target' = [target EXCEPT ![t] = browser'[c]]
           ELSE /\ pc' = [pc EXCEPT ![t] = "done"]
                /\ target' = [target EXCEPT ![t] = None]

\* Mutant of Finally: close_browser awaited at the end of the try block instead
\* of in a finally block, so that an error is delivered without cleanup.
Finally_CloseOnlyOnSuccess(t, e, r, evs) ==
    IF e = NoExc
    THEN close_browser(t, self[t], e, r, evs)
    ELSE /\ exc' = [exc EXCEPT ![t] = e]
         /\ ret' = [ret EXCEPT ![t] = r]
         /\ events' = [events EXCEPT ![t] = evs]
         /\ pc' = [pc EXCEPT ![t] = "done"]
         /\ UNCHANGED target

\* The finally block of run (line 98): close_browser on the run's controller
\* with the exception e in flight or the value r of the return executed.
Finally(t, e, r, evs) == close_browser(t, self[t], e, r, evs)

\* Mutant of ExtractLoop: "return all_data" placed after the try statement,
\* so that the normal return does not pass through the finally block.
ExtractLoop_ReturnOutsideTry(t, data, i, evs) ==
    /\ all_data' = [all_data EXCEPT ![t] = data]
    /\ idx' = [idx EXCEPT ![t] = i]
    /\ events' = [events EXCEPT ![t] = evs]
    /\ IF PyTruthy(urls[t]) /\ i <= Len(urls[t].val)
       THEN /\ pc' = [pc EXCEPT ![t] = "extract_data"]
            /\ UNCHANGED <<exc, ret, target>>
       ELSE /\ pc' = [pc EXCEPT ![t] = "done"]
            /\ ret' = [ret EXCEPT ![t] = data]
            /\ UNCHANGED <<exc, target>>

\* The head of "for url in urls" (lines 86-91) with the accumulator data and
\* the next position i: call extract_data on the next URL, or return all_data.
ExtractLoop(t, data, i, evs) ==
    /\ all_data' = [all_data EXCEPT ![t] = data]
    /\ idx' = [idx EXCEPT ![t] = i]
    /\ IF PyTruthy(urls[t]) /\ i <= Len(urls[t].val)
       THEN /\ pc' = [pc EXCEPT ![t] = "extract_data"]
            /\ events' = [events EXCEPT ![t] = evs]
            /\ UNCHANGED <<exc, ret, target>>
       ELSE Finally(t, NoExc, data, evs)

\* Mutant of AfterInit: the "if credentials" guard is missing and authenticate
\* is always called.
AfterInit_AlwaysAuthenticate(t, evs) ==
    /\ pc' = [pc EXCEPT ![t] = "authenticate"]
    /\ events' = [events EXCEPT ![t] = evs]
    /\ UNCHANGED <<idx, all_data, exc, ret, target>>

\* After init_browser returns (lines 77-85): authenticate if credentials is
\* truthy, else start extracting with all_data = [].
AfterInit(t, evs) ==
    IF PyTruthy(credentials[t])
    THEN /\ pc' = [pc EXCEPT ![t] = "authenticate"]
         /\ events' = [events EXCEPT ![t] = evs]
         /\ UNCHANGED <<idx, all_data, exc, ret, target>>
    ELSE ExtractLoop(t, <<>>, 1, evs)

\* ------------------------------------------------------------------ actions
\* A caller calls run(credentials, urls) on controller c: run enters the try
\* block, init_browser calls async_playwright().start() (line 48).
Call(t, c, cr, us) ==
    /\ pc[t] = "idle"
    /\ nruns < MaxRuns
    /\ nruns' = nruns + 1
    /\ pc' = [pc EXCEPT ![t] = "start"]
    /\ self' = [self EXCEPT ![t] = c]
    /\ rid' = [rid EXCEPT ![t] = nruns + 1]
    /\ credentials' = [credentials EXCEPT ![t] = cr]
    /\ urls' = [urls EXCEPT ![t] = us]
    /\ UNCHANGED <<idx, all_data, exc, ret, target, authLog, extractLog, events, nav>>
    /\ UNCHANGED <<browser, page, launched, pages, browserCloses, pageCloses,
                   drivers, closed>>

\* Calls of run made one after the other by one caller (coroutine slot 1), on
\* any controller: a call starts when no call is executing.
Start(c, cr, us) ==
    /\ \A u \in Tasks : pc[u] = "idle"
    /\ Call(1, c, cr, us)

\* async_playwright().start() returns or raises (line 48).
StartResume(t, ok) ==
    /\ pc[t] = "start"
    /\ UNCHANGED <<self, rid, credentials, urls, authLog, extractLog, nav>>
    /\ UNCHANGED <<browser, page, nruns, launched, pages, browserCloses,
                   pageCloses, closed>>
    /\ drivers' = IF ok THEN drivers \cup {rid[t]} ELSE drivers
    /\ LET evs == Append(events[t], Ev("start", None, Raise(ok, Exc("AcquisitionError:start", 0))))
       IN  IF ok
           THEN /\ pc' = [pc EXCEPT ![t] = "launch"]
                /\ events' = [events EXCEPT ![t] = evs]
                /\ UNCHANGED <<idx, all_data, exc, ret, target>>
           ELSE /\ Finally(t, Exc("AcquisitionError:start", 0), ret[t], evs)
                /\ UNCHANGED <<idx, all_data>>

\* chromium.launch() returns the browser, stored in self.browser, or raises
\* (line 49); on success new_page() is called on it (line 50).
LaunchResume(t, ok) ==
    /\ pc[t] = "launch"
    /\ UNCHANGED <<self, rid, credentials, urls, authLog, extractLog, nav>>
    /\ UNCHANGED <<page, nruns, pages, browserCloses, pageCloses, drivers, closed>>
    /\ LET evs == Append(events[t], Ev("launch", rid[t], Raise(ok, Exc("AcquisitionError:launch", 0))))
       IN  IF ok
           THEN /\ browser' = [browser EXCEPT ![self[t]] = rid[t]]
                /\ launched' = launched \cup {rid[t]}
                /\ pc' = [pc EXCEPT ![t] = "new_page"]
                /\ events' = [events EXCEPT ![t] = evs]
                /\ UNCHANGED <<idx, all_data, exc, ret, target>>
           ELSE /\ UNCHANGED <<browser, launched>>
                /\ Finally(t, Exc("AcquisitionError:launch", 0), ret[t], evs)
                /\ UNCHANGED <<idx, all_data>>

\* browser.new_page() returns the page, stored in self.page, or raises
\* (line 50); on success init_browser returns and run goes on (line 78).
NewPageResume(t, ok) ==
    /\ pc[t] = "new_page"
    /\ UNCHANGED <<self, rid, credentials, urls, authLog, extractLog, nav>>
    /\ UNCHANGED <<browser, nruns, launched, browserCloses, pageCloses, drivers,
                   closed>>
    /\ LET evs == Append(events[t], Ev("new_page", rid[t], Raise(ok, Exc("AcquisitionError:new_page", 0))))
       IN  IF ok
           THEN /\ page' = [page EXCEPT ![self[t]] = rid[t]]
                /\ pages' = pages \cup {rid[t]}
                /\ AfterInit(t, evs)
           ELSE /\ UNCHANGED <<page, pages>>
                /\ Finally(t, Exc("AcquisitionError:new_page", 0), ret[t], evs)
                /\ UNCHANGED <<idx, all_data>>

\* authenticate(credentials) returns a truthy or falsy value or raises
\* (lines 79-82).
AuthenticateResume(t, out) ==
    /\ pc[t] = "authenticate"
    /\ UNCHANGED <<self, rid, credentials, urls, extractLog>>
    /\ nav' = [nav EXCEPT ![t] = "none"]
    /\ UNCHANGED world
    /\ authLog' = [authLog EXCEPT
                     ![t] = Append(@, [arg |-> credentials[t], out |-> out])]
    /\ LET evs == Append(events[t], Ev("authenticate", page[self[t]], Raise(out # "raise", Exc("AuthError", 0))))
       IN  CASE out = "true"  -> ExtractLoop(t, <<>>, 1, evs)
             [] out = "false" -> /\ Finally(t, NoExc, <<>>, evs)
                                 /\ UNCHANGED <<idx, all_data>>
             [] out = "raise" -> /\ Finally(t, Exc("AuthError", 0), ret[t], evs)
                                 /\ UNCHANGED <<idx, all_data>>

\* extract_data(url) returns data, appended to all_data, or raises
\* (lines 87-89).
ExtractResume(t, ok, data) ==
    /\ pc[t] = "extract_data"
    /\ UNCHANGED <<self, rid, credentials, urls, authLog>>
    /\ nav' = [nav EXCEPT ![t] = "none"]
    /\ UNCHANGED world
    /\ LET url == urls[t].val[idx[t]]
           evs == Append(events[t], Ev("extract_data", page[self[t]], Raise(ok, Exc("ExtractionError", idx[t]))))
       IN  IF ok
           THEN /\ extractLog' = [extractLog EXCEPT ![t] =
                      Append(@, [url |-> url, ok |-> TRUE, data |-> data])]
                /\ ExtractLoop(t, Extend(all_data[t], data), idx[t] + 1, evs)
           ELSE /\ extractLog' = [extractLog EXCEPT ![t] =
                      Append(@, [url |-> url, ok |-> FALSE, data |-> <<>>])]
                /\ Finally(t, Exc("ExtractionError", idx[t]), ret[t], evs)
                /\ UNCHANGED <<idx, all_data>>

\* self.page.close() returns or raises (lines 55-58).  When it returns,
\* close_browser goes on to self.browser; when it raises, the exception
\* leaves close_browser and the finally block and replaces run's outcome.
PageCloseResume(t, ok) ==
    /\ pc[t] = "page.close"
    /\ UNCHANGED <<self, rid, credentials, urls, idx, all_data, authLog, extractLog,
                   nav>>
    /\ UNCHANGED <<browser, page, nruns, launched, pages, browserCloses, drivers>>
    /\ closed' = IF ok THEN closed \cup {<<"page", target[t]>>} ELSE closed
    /\ pageCloses' = [pageCloses EXCEPT ![target[t]] = @ + 1]
    /\ events' = [events EXCEPT ![t] = Append(@, Ev("page.close", target[t], Raise(ok, Exc("PageCloseError", 0))))]
    /\ IF ok
       THEN /\ UNCHANGED <<exc, ret>>
            /\ IF browser[self[t]] # None
               THEN /\ pc' = [pc EXCEPT ![t] = "browser.close"]
                    /\ target' = [target EXCEPT ![t] = browser[self[t]]]
               ELSE /\ pc' = [pc EXCEPT ![t] = "done"]
                    /\ target' = [target EXCEPT ![t] = None]
       ELSE /\ exc' = [exc EXCEPT ![t] = Exc("PageCloseError", 0)]
            /\ pc' = [pc EXCEPT ![t] = "done"]
            /\ UNCHANGED <<ret, target>>

\* self.browser.close() returns or raises (lines 57-59); run then delivers
\* its outcome, which is the close error when close raised.
BrowserCloseResume(t, ok) ==
    /\ pc[t] = "browser.close"
    /\ UNCHANGED <<self, rid, credentials, urls, idx, all_data, authLog, extractLog,
                   nav>>
    /\ UNCHANGED <<browser, page, nruns, launched, pages, pageCloses, drivers>>
    /\ closed' = IF ok THEN closed \cup {<<"browser", target[t]>>} ELSE closed
    /\ browserCloses' = [browserCloses EXCEPT ![target[t]] = @ + 1]
    /\ events' = [events EXCEPT ![t] = Append(@, Ev("browser.close", target[t], Raise(ok, Exc("BrowserCloseError", 0))))]
    /\ pc' = [pc EXCEPT ![t] = "done"]
    /\ exc' = [exc EXCEPT ![t] = IF ok THEN @ ELSE Exc("BrowserCloseError", 0)]
    /\ UNCHANGED <<ret, target>>

\* The caller receives the outcome of run; the call's frame is gone.
Return(t) ==
    /\ pc[t] = "done"
    /\ pc' = [pc EXCEPT ![t] = "idle"]
    /\ self' = [self EXCEPT ![t] = 1]
    /\ rid' = [rid EXCEPT ![t] = 0]
    /\ credentials' = [credentials EXCEPT ![t] = NoneArg]
    /\ urls' = [urls EXCEPT ![t] = NoneArg]
    /\ idx' = [idx EXCEPT ![t] = 0]
    /\ all_data' = [all_data EXCEPT ![t] = <<>>]
    /\ exc' = [exc EXCEPT ![t] = NoExc]
    /\ ret' = [ret EXCEPT ![t] = <<>>]
    /\ target' = [target EXCEPT ![t] = None]
    /\ authLog' = [authLog EXCEPT ![t] = <<>>]
    /\ extractLog' = [extractLog EXCEPT ![t] = <<>>]
    /\ events' = [events EXCEPT ![t] = <<>>]
    /\ UNCHANGED <<nav, world>>

\* The steps of the calls that are executing.
RunSteps ==
    \/ \E t \in Tasks, ok \in BOOLEAN : StartResume(t, ok)
    \/ \E t \in Tasks, ok \in BOOLEAN : LaunchResume(t, ok)
    \/ \E t \in Tasks, ok \in BOOLEAN : NewPageResume(t, ok)
    \/ \E t \in Tasks, out \in {"true", "false", "raise"} : AuthenticateResume(t, out)
    \/ \E t \in Tasks, ok \in BOOLEAN, data \in ExtractResults : ExtractResume(t, ok, data)
    \/ \E t \in Tasks, ok \in BOOLEAN : PageCloseResume(t, ok)
    \/ \E t \in Tasks, ok \in BOOLEAN : BrowserCloseResume(t, ok)
    \/ \E t \in Tasks : Return(t)

\* The calls of Spec are made on one instance (controller 1): instances share
\* no state, so calls made one after the other on several instances behave as
\* on each instance alone.
Next ==
    \/ \E cr \in CredentialsArgs, us \in UrlsArgs : Start(1, cr, us)
    \/ RunSteps

Spec == Init /\ [][Next]_vars

\* ----------------------------------------------------------------- liveness
\* The awaited call of coroutine t returns or raises.
Resume(t) ==
    \/ \E ok \in BOOLEAN : StartResume(t, ok)
    \/ \E ok \in BOOLEAN : LaunchResume(t, ok)
    \/ \E ok \in BOOLEAN : NewPageResume(t, ok)
    \/ \E out \in {"true", "false", "raise"} : AuthenticateResume(t, out)
    \/ \E ok \in BOOLEAN, data \in ExtractResults : ExtractResume(t, ok, data)
    \/ \E ok \in BOOLEAN : PageCloseResume(t, ok)
    \/ \E ok \in BOOLEAN : BrowserCloseResume(t, ok)

\* Spec with the assumption that every awaited collaborator call eventually
\* returns or raises (the event loop resumes a coroutine whose await is over).
SpecLive == Spec /\ \A t \in Tasks : WF_vars(Resume(t))

\* -------------------------------------------------------------- navigate_to
\* The strategy's authenticate or extract_data, executing in a run, calls
\* self.navigate_to(url) (at most once per call here): navigate_to enters its
\* try block and awaits self.page.goto (line 64).
NavigateCall(t) ==
    /\ pc[t] \in {"authenticate", "extract_data"}
    /\ nav[t] = "none"
    /\ nav' = [nav EXCEPT ![t] = pc[t]]
    /\ pc' = [pc EXCEPT ![t] = "goto"]
    /\ UNCHANGED <<self, rid, credentials, urls, idx, all_data, exc, ret, target,
                   authLog, extractLog, events>>
    /\ UNCHANGED world

\* navigate_to logs the exception e of goto or wait_for_timeout and re-raises
\* it (lines 67-69); the strategy method that called it lets it pass, and run
\* logs it, re-raises it and enters its finally block (lines 93-98).
NavigateRaises(t, e, evs) ==
    LET caller == nav[t]
        evs2 == Append(evs, Ev(caller, page[self[t]], e))
    IN  /\ nav' = [nav EXCEPT ![t] = "none"]
        /\ authLog' = IF caller = "authenticate"
                      THEN [authLog EXCEPT ![t] =
                              Append(@, [arg |-> credentials[t], out |-> "raise"])]
                      ELSE authLog
        /\ extractLog' = IF caller = "extract_data"
                         THEN [extractLog EXCEPT ![t] =
                                 Append(@, [url |-> urls[t].val[idx[t]],
                                            ok |-> FALSE, data |-> <<>>])]
                         ELSE extractLog
        /\ Finally(t, e, ret[t], evs2)
        /\ UNCHANGED <<idx, all_data>>

\* page.goto(url, wait_until="networkidle", timeout=30000) returns or raises
\* (line 64); when it returns, wait_for_timeout is awaited (line 65).
GotoResume(t, ok) ==
    /\ pc[t] = "goto"
    /\ UNCHANGED <<self, rid, credentials, urls>>
    /\ UNCHANGED world
    /\ LET e == Raise(ok, Exc("NavigationError:goto", 0))
           evs == Append(events[t], Ev("goto", page[self[t]], e))
       IN  IF ok
           THEN /\ pc' = [pc EXCEPT ![t] = "wait_for_timeout"]
                /\ events' = [events EXCEPT ![t] = evs]
                /\ UNCHANGED <<idx, all_data, exc, ret, target, authLog,
                               extractLog, nav>>
           ELSE NavigateRaises(t, e, evs)

\* page.wait_for_timeout(wait_time) returns or raises (line 65); when it
\* returns, navigate_to logs the success and returns to the strategy method.
WaitResume(t, ok) ==
    /\ pc[t] = "wait_for_timeout"
    /\ UNCHANGED <<self, rid, credentials, urls>>
    /\ UNCHANGED world
    /\ LET e == Raise(ok, Exc("NavigationError:wait", 0))
           evs == Append(events[t], Ev("wait_for_timeout", page[self[t]], e))
       IN  IF ok
           THEN /\ pc' = [pc EXCEPT ![t] = nav[t]]
                /\ nav' = [nav EXCEPT ![t] = "navigated"]
                /\ events' = [events EXCEPT ![t] = evs]
                /\ UNCHANGED <<idx, all_data, exc, ret, target, authLog,
                               extractLog>>
           ELSE NavigateRaises(t, e, evs)

NextNav ==
    \/ Next
    \/ \E t \in Tasks : NavigateCall(t)
    \/ \E t \in Tasks, ok \in BOOLEAN : GotoResume(t, ok)
    \/ \E t \in Tasks, ok \in BOOLEAN : WaitResume(t, ok)

\* Runs, one after the other on one instance, whose strategy methods navigate.
SpecNav == Init /\ [][NextNav]_vars

\* ------------------------------------- concurrent runs, separate instances
\* Arguments of the concurrent runs: credentials and one URL.
SepCredentialsArgs == {Some(UserPass)}
SepUrlsArgs == {Some(<<"https://site/a">>)}

\* run is called on an instance of its own, while other calls may be
\* executing on other instances: no executing call uses controller c, and c
\* is as __init__ left it (lines 14-15).
StartSeparate(t, c, cr, us) ==
    /\ \A u \in Tasks : pc[u] # "idle" => self[u] # c
    /\ browser[c] = None /\ page[c] = None
    /\ Call(t, c, cr, us)

\* Coroutine t calls run on the instance of its own, controller t.
NextSeparate ==
    \/ \E t \in Tasks \cap Controllers, cr \in SepCredentialsArgs,
          us \in SepUrlsArgs : StartSeparate(t, t, cr, us)
    \/ RunSteps

SpecSeparate == Init /\ [][NextSeparate]_vars

\* ------------------------------------------------- re-entrant use (lines 71-98)
\* A second coroutine calls run on controller c while every call made before
\* is still executing (it is suspended at one of its awaits): nothing in run
\* checks for a call in progress.
StartReentrant(t, c, cr, us) ==
    /\ \A h \in 1..nruns : \E u \in Tasks : rid[u] = h /\ pc[u] \notin {"idle", "done"}
    /\ Call(t, c, cr, us)

NextReentrant ==
    \/ \E t \in Tasks, cr \in SepCredentialsArgs, us \in SepUrlsArgs :
          StartReentrant(t, 1, cr, us)
    \/ RunSteps

SpecReentrant == Init /\ [][NextReentrant]_vars

\* ------------------------------------------- close_browser called directly
\* A caller awaits close_browser() on controller c itself (it is a public
\* method), while no call is executing: the call is no run (rid stays 0) and
\* has no outcome pending.
CloseStart(t, c) ==
    /\ \A u \in Tasks : pc[u] = "idle"
    /\ nruns < MaxRuns
    /\ nruns' = nruns + 1
    /\ self' = [self EXCEPT ![t] = c]
    /\ UNCHANGED <<rid, credentials, urls, idx, all_data, authLog, extractLog, nav>>
    /\ UNCHANGED <<browser, page, launched, pages, browserCloses, pageCloses,
                   drivers, closed>>
    /\ close_browser(t, c, NoExc, <<>>, <<>>)

NextClose ==
    \/ Next
    \/ CloseStart(1, 1)

\* Runs and direct close_browser calls, one after the other, on one instance.
SpecClose == Init /\ [][NextClose]_vars


\* ------------------------------------------------- vocabulary of the claims
Done(t) == pc[t] = "done"

\* What the caller of run observes once the call is done.
RunRaises(t) == exc[t] # NoExc
RunReturns(t, v) == exc[t] = NoExc /\ ret[t] = v

\* The collaborator calls of a run by operation.
Calls(t, op) == {i \in DOMAIN events[t] : events[t][i].op = op}
CallsOn(t, op, h) == {i \in Calls(t, op) : events[t][i].h = h}
Failed(t, ops) == {i \in DOMAIN events[t] :
                      events[t][i].op \in ops /\ events[t][i].exc # NoExc}

AcquireOps == {"start", "launch", "new_page"}
WorkOps == AcquireOps \cup {"authenticate", "extract_data"}

\* init_browser returned: the three acquisition calls were made and none raised.
Acquired(t) == Calls(t, "new_page") # {} /\ Failed(t, AcquireOps) = {}
AcquisitionFailed(t) == Failed(t, AcquireOps) # {}

\* The error raised by acquisition, authenticate or extract_data (at most one
\* of them raises in a run), NoExc when none did.
PrimaryExc(t) ==
    IF Failed(t, WorkOps) = {} THEN NoExc
    ELSE events[t][CHOOSE i \in Failed(t, WorkOps) : TRUE].exc

AuthReturned(t, out) == \E i \in DOMAIN authLog[t] : authLog[t][i].out = out

RECURSIVE ConcatData(_)
ConcatData(log) ==
    IF log = <<>> THEN <<>> ELSE log[1].data \o ConcatData(Tail(log))

ExtractedUrls(t) == [i \in DOMAIN extractLog[t] |-> extractLog[t][i].url]
RequestedUrls(t) == IF urls[t].isNone THEN <<>> ELSE urls[t].val

\* The browser and the page a run created itself are numbered by the run.
OwnBrowserLaunched(t) == \E i \in Calls(t, "launch") : events[t][i].exc = NoExc
OwnBrowserCloseCalls(t) == CallsOn(t, "browser.close", rid[t])

C2_CleanupNeverMasksOutcome ==
    \A t \in Tasks :
        Done(t) =>
            /\ exc[t].kind \notin {"PageCloseError", "BrowserCloseError"}
            /\ exc[t] = PrimaryExc(t)
            /\ PrimaryExc(t) = NoExc =>
                  ret[t] = IF AuthReturned(t, "false") THEN <<>>
                           ELSE ConcatData(extractLog[t])

\* C3 (as claimed): whenever close_browser has run to its end and a browser
\* exists, browser.close() was attempted, after page.close() if that was
\* called, also when page.close() failed.
C3_BrowserCloseAttemptedAfterPageClose ==
    \A t \in Tasks :
        (Done(t) /\ Calls(t, "close_browser") # {} /\ browser[self[t]] # None) =>
            /\ Calls(t, "browser.close") # {}
            /\ \A i \in Calls(t, "page.close"), j \in Calls(t, "browser.close") : i < j

\* C4 (as claimed): when extract_data raises at URL index k, run raises that
\* same error after the browser has been closed, extract_data is not invoked
\* for a URL after k, and no record is returned.
C4_ExtractionFailureAllOrNothing ==
    \A t \in Tasks :
        (Done(t) /\ Failed(t, {"extract_data"}) # {}) =>
            LET k == Len(extractLog[t])
            IN  /\ RunRaises(t)
                /\ exc[t] = Exc("ExtractionError", k)
                /\ ~extractLog[t][k].ok
                /\ \A i \in 1..(k - 1) : extractLog[t][i].ok
                /\ OwnBrowserCloseCalls(t) # {}

\* C5: when no step of the run fails (no collaborator call raises, and
\* authenticate, if called, returns true), run returns the concatenation, in
\* request order, of what extract_data returned for each URL, and
\* extract_data was called exactly once per URL occurrence, in request order.
NoStepFails(t) ==
    /\ \A i \in DOMAIN events[t] : events[t][i].exc = NoExc
    /\ ~AuthReturned(t, "false")

C5_ResultIsConcatInUrlOrder ==
    \A t \in Tasks :
        (Done(t) /\ NoStepFails(t)) =>
            /\ RunReturns(t, ConcatData(extractLog[t]))
            /\ ExtractedUrls(t) = RequestedUrls(t)
            /\ \A i \in DOMAIN extractLog[t] : extractLog[t][i].ok

C5_Witness ==
    \E t \in Tasks :
        /\ Done(t) /\ NoStepFails(t)
        /\ RequestedUrls(t) = <<"https://site/b", "https://site/a">>
        /\ extractLog[t][1].data = <<2, 3>>
        /\ extractLog[t][2].data = <<1>>
        /\ RunReturns(t, <<2, 3, 1>>)

\* C6 (as claimed): when credentials are provided and authenticate returns
\* false, run returns [], raises nothing, never invokes extract_data and has
\* closed the browser when it returns.
C6_AuthFalseReturnsEmpty ==
    \A t \in Tasks :
        (Done(t) /\ AuthReturned(t, "false")) =>
            /\ RunReturns(t, <<>>)
            /\ extractLog[t] = <<>>
            /\ OwnBrowserCloseCalls(t) # {}

\* C7 (as claimed): whenever a credentials mapping is supplied, the empty
\* mapping included, authenticate is invoked exactly once with that mapping
\* after acquisition and before any extract_data call, and extract_data is
\* called only if it returned true.
C7_AuthenticateGatesExtraction ==
    \A t \in Tasks :
        ~credentials[t].isNone =>
            /\ Len(authLog[t]) <= 1
            /\ \A i \in DOMAIN authLog[t] : authLog[t][i].arg = credentials[t]
            /\ \A i \in Calls(t, "authenticate") :
                  /\ \E j \in Calls(t, "new_page") : j < i
                  /\ \A j \in Calls(t, "extract_data") : i < j
            /\ (Acquired(t) /\ pc[t] # "authenticate") => Len(authLog[t]) = 1
            /\ (pc[t] = "extract_data" \/ extractLog[t] # <<>>) =>
                  AuthReturned(t, "true")

\* C8: when credentials is omitted (None), authenticate is never invoked, and
\* the call that follows browser acquisition is the first extract_data (or
\* close_browser when there is no URL).
C8_NoCredentialsNoAuthenticate ==
    \A t \in Tasks :
        credentials[t].isNone =>
            /\ authLog[t] = <<>>
            /\ pc[t] # "authenticate"
            /\ Calls(t, "authenticate") = {}
            /\ \A i \in Calls(t, "new_page") :
                  IF i < Len(events[t])
                  THEN events[t][i + 1].op =
                          IF events[t][i].exc = NoExc /\ RequestedUrls(t) # <<>>
                          THEN "extract_data" ELSE "close_browser"
                  ELSE pc[t] = "extract_data"

C8_Witness ==
    \E t \in Tasks :
        /\ Done(t) /\ credentials[t].isNone
        /\ Acquired(t)
        /\ Len(extractLog[t]) = 2
        /\ RunReturns(t, <<1, 2, 3>>)

\* C9 (as claimed): when authenticate raises, run raises that same error,
\* extract_data is never invoked and the browser has been closed when the
\* error reaches the caller.
C9_AuthRaisePropagates ==
    \A t \in Tasks :
        (Done(t) /\ AuthReturned(t, "raise")) =>
            /\ exc[t] = Exc("AuthError", 0)
            /\ extractLog[t] = <<>>
            /\ OwnBrowserCloseCalls(t) # {}

\* C10 (as claimed): when acquisition fails at driver start, browser launch
\* or page creation, run raises that error, neither authenticate nor
\* extract_data is invoked, and cleanup closes exactly what this run created:
\* its browser when launch succeeded, nothing when launch failed; no page,
\* and no handle of another run.
C10_AcquisitionFailureIsFatal ==
    \A t \in Tasks :
        (Done(t) /\ AcquisitionFailed(t)) =>
            /\ exc[t] = PrimaryExc(t)
            /\ authLog[t] = <<>> /\ extractLog[t] = <<>>
            /\ Calls(t, "page.close") = {}
            /\ {events[t][i].h : i \in Calls(t, "browser.close")} =
                  IF OwnBrowserLaunched(t) THEN {rid[t]} ELSE {}
            /\ Cardinality(Calls(t, "browser.close")) <= 1


\* C11 (as claimed): no state persists between runs: once a run is done the
\* controller holds no browser or page reference, and the close calls of a
\* run are made only on the page and the browser the run created itself.
C11_NoStatePersistsBetweenRuns ==
    \A t \in Tasks :
        /\ Done(t) => (browser[self[t]] = None /\ page[self[t]] = None)
        /\ rid[t] # 0 =>
              \A i \in Calls(t, "page.close") \cup Calls(t, "browser.close") :
                  events[t][i].h = rid[t]


\* C12 (as claimed): cleanup is idempotent: a close_browser call made after
\* the page and the browser were closed (by a completed run or by an earlier
\* close) issues no further close() on the closed page or browser.
DirectClose(t) == pc[t] # "idle" /\ rid[t] = 0

C12_CloseIsIdempotent ==
    \A t \in Tasks :
        DirectClose(t) =>
            /\ pc[t] = "page.close" => <<"page", target[t]>> \notin closed
            /\ pc[t] = "browser.close" => <<"browser", target[t]>> \notin closed


\* C13: the calls of a run happen in the fixed order start, launch, new_page
\* (acquisition), then authenticate (only with credentials supplied), then
\* extract_data once per URL in request order, then close_browser with its
\* page.close() and browser.close(), then delivery of the outcome: no
\* authenticate or extract_data call before acquisition has completed or
\* after close_browser has started, and no outcome before close_browser ran.
Rank(op) ==
    CASE op = "start" -> 1
      [] op = "launch" -> 2
      [] op = "new_page" -> 3
      [] op = "authenticate" -> 4
      [] op = "extract_data" -> 5
      [] op = "close_browser" -> 6
      [] op = "page.close" -> 7
      [] op = "browser.close" -> 8

Ops(t) == [i \in DOMAIN events[t] |-> events[t][i].op]

C13_LifecycleOrder ==
    \A t \in Tasks :
        rid[t] # 0 =>
            /\ \A i, j \in DOMAIN events[t] :
                  i < j => \/ Rank(Ops(t)[i]) < Rank(Ops(t)[j])
                           \/ Ops(t)[i] = "extract_data" /\ Ops(t)[j] = "extract_data"
            /\ Calls(t, "authenticate") # {} => ~credentials[t].isNone
            /\ \A i \in Calls(t, "authenticate") \cup Calls(t, "extract_data") :
                  \E j \in Calls(t, "new_page") : j < i /\ events[t][j].exc = NoExc
            /\ Len(extractLog[t]) <= Len(RequestedUrls(t))
            /\ \A i \in DOMAIN extractLog[t] : extractLog[t][i].url = RequestedUrls(t)[i]
            /\ pc[t] \in {"authenticate", "extract_data"} =>
                  Acquired(t) /\ Calls(t, "close_browser") = {}
            /\ pc[t] \in {"page.close", "browser.close", "done"} =>
                  Calls(t, "close_browser") # {}

C13_Witness ==
    \E t \in Tasks :
        /\ Done(t)
        /\ Ops(t) = <<"start", "launch", "new_page", "authenticate", "extract_data",
                      "extract_data", "close_browser", "page.close", "browser.close">>


\* C14: in every interleaving of concurrent runs on separate controller
\* instances, each run launches, authenticates and extracts with, and closes,
\* only the browser and page it acquired itself, and a run's result holds
\* only the records of its own extract_data calls.
C14_SingleOwner ==
    \A t \in Tasks :
        rid[t] # 0 =>
            /\ \A i \in DOMAIN events[t] :
                  events[t][i].h # None => events[t][i].h = rid[t]
            /\ pc[t] \in {"authenticate", "extract_data"} => page[self[t]] = rid[t]
            /\ pc[t] \in {"page.close", "browser.close"} => target[t] = rid[t]
            /\ \A u \in Tasks \ {t} : pc[u] # "idle" => self[u] # self[t]
            /\ (Done(t) /\ exc[t] = NoExc) =>
                  ret[t] = IF AuthReturned(t, "false") THEN <<>>
                           ELSE ConcatData(extractLog[t])

\* Two runs overlap: the run started later is already closing its browser
\* while the earlier one is still extracting.
C14_Witness ==
    \E t, u \in Tasks :
        /\ self[t] # self[u] /\ 0 < rid[t] /\ rid[t] < rid[u]
        /\ pc[t] = "extract_data" /\ AuthReturned(t, "true")
        /\ page[self[t]] = rid[t]
        /\ pc[u] = "browser.close" /\ target[u] = rid[u]
        /\ CallsOn(u, "page.close", rid[u]) # {}


\* C15 (as claimed): navigate_to performs the page load, then the settle
\* delay, and never swallows a failure: it returns to its caller only after
\* both have returned, and the error of a failed load or wait is raised to
\* its caller; inside a run's authenticate or extract_data that error reaches
\* the run's caller and the run's browser is closed exactly once.
NavFailed(t) == Failed(t, {"goto", "wait_for_timeout"})

C15_NavigateNeverSwallows ==
    \A t \in Tasks :
        /\ \A i \in Calls(t, "wait_for_timeout") :
              i > 1 /\ events[t][i - 1].op = "goto" /\ events[t][i - 1].exc = NoExc
        /\ nav[t] = "navigated" =>
              LET n == Len(events[t])
              IN  /\ n >= 2
                  /\ events[t][n - 1] = Ev("goto", page[self[t]], NoExc)
                  /\ events[t][n] = Ev("wait_for_timeout", page[self[t]], NoExc)
        /\ \A i \in NavFailed(t) :
              /\ i < Len(events[t])
              /\ events[t][i + 1].op \in {"authenticate", "extract_data"}
              /\ events[t][i + 1].exc = events[t][i].exc
        /\ (Done(t) /\ NavFailed(t) # {}) =>
              /\ exc[t] = events[t][CHOOSE i \in NavFailed(t) : TRUE].exc
              /\ Cardinality(OwnBrowserCloseCalls(t)) = 1


\* C16 (as claimed): a run requested with zero URLs (urls empty or omitted), in
\* which no call raises, is not an error: the browser is acquired and closed,
\* authenticate is invoked if credentials were supplied, extract_data is
\* never invoked and run returns [] without raising.
NoCallRaises(t) == \A i \in DOMAIN events[t] : events[t][i].exc = NoExc

C16_ZeroUrlsReturnsEmpty ==
    \A t \in Tasks :
        (Done(t) /\ rid[t] # 0 /\ RequestedUrls(t) = <<>> /\ NoCallRaises(t)) =>
            /\ Acquired(t)
            /\ OwnBrowserCloseCalls(t) # {}
            /\ ~credentials[t].isNone => Len(authLog[t]) = 1
            /\ extractLog[t] = <<>>
            /\ RunReturns(t, <<>>)


\* C17: assuming every collaborator call eventually returns or raises, every
\* run eventually reaches a terminal state, which is exactly one of
\* DONE_SUCCESS, DONE_EMPTY and DONE_FAILED; a terminal state is left only by
\* handing the outcome to the caller, and while a run is in it the run makes
\* no further call and its outcome does not change.
Terminal(t) ==
    IF exc[t] # NoExc THEN "DONE_FAILED"
    ELSE IF AuthReturned(t, "false") THEN "DONE_EMPTY"
    ELSE "DONE_SUCCESS"

Running(t) == pc[t] \notin {"idle", "done"}

C17_RunTerminates ==
    /\ \A t \in Tasks : Running(t) ~> Done(t)
    /\ [][\A t \in Tasks :
            Done(t) => /\ pc'[t] \in {"done", "idle"}
                       /\ pc'[t] = "done" =>
                             /\ events'[t] = events[t]
                             /\ exc'[t] = exc[t] /\ ret'[t] = ret[t]
                             /\ Terminal(t)' = Terminal(t)]_vars

C17_Witness ==
    \E t \in Tasks :
        /\ Done(t) /\ Terminal(t) = "DONE_EMPTY"
        /\ Ops(t)[Len(Ops(t))] = "browser.close"
        /\ RequestedUrls(t) # <<>>


\* C18 (as claimed): when two run calls on one controller overlap and both
\* are done, every browser and every page launched by either has had close()
\* called exactly once, and every operation of a call (authenticate,
\* extract_data, page.close, browser.close) was on its own page or browser.
C18_ReentrantRunsKeepOwnHandles ==
    \A t, u \in Tasks :
        (t # u /\ Done(t) /\ Done(u) /\ rid[t] # 0 /\ rid[u] # 0
              /\ self[t] = self[u]) =>
            /\ \A h \in {rid[t], rid[u]} :
                  /\ h \in launched => browserCloses[h] = 1
                  /\ h \in pages => pageCloses[h] = 1
            /\ \A i \in DOMAIN events[t] :
                  events[t][i].h # None => events[t][i].h = rid[t]


\* C19 (as claimed): in every terminal state of a run, the driver started by
\* init_browser has been stopped and the browser launched and the page
\* created by the run have been closed, so the live drivers are at most those
\* of the runs still executing.
C19_AcquiredResourcesReleased ==
    /\ \A t \in Tasks :
          (Done(t) /\ rid[t] # 0) =>
              /\ rid[t] \notin drivers
              /\ rid[t] \in launched => <<"browser", rid[t]>> \in closed
              /\ rid[t] \in pages => <<"page", rid[t]>> \in closed
    /\ drivers \subseteq {rid[t] : t \in {u \in Tasks : pc[u] # "idle"}}

====
